---- MODULE Spec2Model ----
(***************************************************************************)
(* Controle Financeiro (src/main.py): a Streamlit page over five Google    *)
(* Sheets worksheets.  The model keeps the worksheets, the st.cache_data   *)
(* entries of the five loaders and what the last script run rendered.      *)
(* Amounts are whole cents; a calendar date is its proleptic Gregorian     *)
(* ordinal (date.toordinal); the text '%Y-%m-%d' is the record [y, m, d].  *)
(***************************************************************************)
EXTENDS Integers, Sequences, FiniteSets, TLC

VARIABLES receitas, despesas, categorias, formas_pagamento, cartoes, cache, ui, view

vars == <<receitas, despesas, categorias, formas_pagamento, cartoes, cache, ui, view>>

sheets == <<receitas, despesas, categorias, formas_pagamento, cartoes>>

(***************************************************************************)
(* Bounds of the model.                                                    *)
(***************************************************************************)
MaxReceitas == 1
MaxDespesas == 2
MaxParcelas == 2
MaxParcelasAmplo == 4
MaxReceitasMensal == 1
MaxLinhasForm == 1
MaxLinhasAnexo == 1
MaxDespesasMensal == 3
MaxValorAmplo == 12

(***************************************************************************)
(* Program constants.                                                      *)
(***************************************************************************)
DiasPorParcela == 30
MaxValueParcelas == 120

(***************************************************************************)
(* Calendar arithmetic of datetime.date, which add_despesa uses through    *)
(* data + timedelta(days=30*i) and strftime('%Y-%m-%d'), and the loaders   *)
(* through pd.to_datetime.                                                 *)
(***************************************************************************)
is_leap(y) == y % 4 = 0 /\ (y % 100 # 0 \/ y % 400 = 0)

days_in_month(y, m) ==
    IF m = 2 THEN (IF is_leap(y) THEN 29 ELSE 28)
    ELSE IF m \in {4, 6, 9, 11} THEN 30 ELSE 31

days_before_year(y) ==
    LET p == y - 1 IN p * 365 + (p \div 4) - (p \div 100) + (p \div 400)

RECURSIVE days_before_month(_, _)
days_before_month(y, m) ==
    IF m = 1 THEN 0 ELSE days_before_month(y, m - 1) + days_in_month(y, m - 1)

\* date(y, m, d).toordinal()
ymd2ord(y, m, d) == days_before_year(y) + days_before_month(y, m) + d

\* date.fromordinal(n) as (year, month, day): the 400/100/4/1-year cycles.
ord2ymd(n) ==
    LET n0   == n - 1
        n400 == n0 \div 146097
        r400 == n0 % 146097
        n100 == r400 \div 36524
        r100 == r400 % 36524
        n4   == r100 \div 1461
        r4   == r100 % 1461
        n1   == r4 \div 365
        r1   == r4 % 365
        year == n400 * 400 + 1 + n100 * 100 + n4 * 4 + n1
        leapyear == n1 = 3 /\ (n4 # 24 \/ n100 = 3)
        \* _DAYS_BEFORE_MONTH (a common year) plus the leap day after February
        before(mm) == days_before_month(2023, mm) + (IF mm > 2 /\ leapyear THEN 1 ELSE 0)
        guess == (r1 + 50) \div 32
        month == IF before(guess) > r1 THEN guess - 1 ELSE guess
    IN  IF n1 = 4 \/ n100 = 4
        THEN [y |-> year - 1, m |-> 12, d |-> 31]
        ELSE [y |-> year, m |-> month, d |-> r1 - before(month) + 1]

\* data.strftime('%Y-%m-%d'): the text written to the sheet.
strftime(data) == ord2ymd(data)

\* pd.to_datetime on a 'YYYY-MM-DD' text.
to_datetime(texto) == ymd2ord(texto.y, texto.m, texto.d)

\* Series.dt.to_period('M'): the month ordinal pandas sorts Periods by.
to_period_M(ts) == LET c == ord2ymd(ts) IN (c.y - 1970) * 12 + (c.m - 1)

\* PeriodIndex.astype(str): 'YYYY-MM', as the pair <<year, month>>.
period_str(p) == <<1970 + (p \div 12), (p % 12) + 1>>

(***************************************************************************)
(* round(valor_total / num_parcelas, 2) in cents.  The quotient is a       *)
(* binary float: when it lies exactly between two cents, the float is a    *)
(* little above or a little below the tie and round() follows the float,   *)
(* so either neighbour can come out (0.05/2 gives 0.03, 0.03/2 gives 0.01).*)
(***************************************************************************)
\* Mutant: the quotient truncated to the cent instead of rounded.
round2_truncado(valor_total, num_parcelas, acima) == valor_total \div num_parcelas

round2(valor_total, num_parcelas, acima) ==
    LET q == valor_total \div num_parcelas
        r == valor_total % num_parcelas
    IN  IF 2 * r < num_parcelas THEN q
        ELSE IF 2 * r > num_parcelas THEN q + 1
        ELSE IF acima THEN q + 1 ELSE q

(***************************************************************************)
(* The reference worksheets as the owner filled them, and the random       *)
(* identifiers.                                                            *)
(***************************************************************************)
CategoriasConfiguradas ==
    << [Tipo |-> "Receita", Nome_Categoria |-> "Salario"],
       [Tipo |-> "Receita", Nome_Categoria |-> "Freelance"],
       [Tipo |-> "Despesa", Nome_Categoria |-> "Alimentacao"],
       [Tipo |-> "Despesa", Nome_Categoria |-> "Transporte"] >>

FormasConfiguradas == << [Tipo_Pagamento |-> "PIX"], [Tipo_Pagamento |-> "Credito"] >>

CartoesConfigurados == << [Nome_Cartao |-> "Nubank"] >>

\* str(uuid.uuid4())[:8]: a random token, which may repeat.
UUIDS == {"1f0c9a2e", "b7d44e10"}

\* number_input "Numero de Parcelas": min_value=1, max_value=120.
Parcelas(teto) == {n \in 1..teto : n <= MaxValueParcelas}

(***************************************************************************)
(* Sequence helpers.                                                       *)
(***************************************************************************)
Range(s) == {s[i] : i \in DOMAIN s}

RECURSIVE SumSeq(_)
SumSeq(s) == IF s = <<>> THEN 0 ELSE Head(s) + SumSeq(Tail(s))

Column(df, col) == [i \in DOMAIN df |-> df[i][col]]

\* The sorted sequence of a finite set of integers.
RECURSIVE SortedSeq(_)
SortedSeq(S) ==
    IF S = {} THEN <<>>
    ELSE LET lo == CHOOSE x \in S : \A z \in S : x <= z
         IN  <<lo>> \o SortedSeq(S \ {lo})

(***************************************************************************)
(* st.cache_data: one entry per cached loader.                             *)
(***************************************************************************)
Loaders == {"load_receitas", "load_despesas", "load_categorias",
            "load_formas_pagamento", "load_cartoes"}

Miss == [cached |-> FALSE, value |-> <<>>]

Hit(value) == [cached |-> TRUE, value |-> value]

\* st.cache_data.clear()
cache_clear == [f \in Loaders |-> Miss]

\* What a @st.cache_data function returns under cache c, given what its body computes.
cached_call(c, f, computed) == IF c[f].cached THEN c[f].value ELSE computed

\* The cache after the calls of the loaders in fs, each storing its result on a miss.
cache_after(c, fs, computed) ==
    [f \in Loaders |-> IF f \in fs /\ ~c[f].cached THEN Hit(computed[f]) ELSE c[f]]

(***************************************************************************)
(* The loaders' bodies: get_all_records() and the type coercion.           *)
(***************************************************************************)
coerce(records) == [i \in DOMAIN records |-> [records[i] EXCEPT !.Data = to_datetime(@)]]

load_receitas_body == coerce(receitas)

load_despesas_body == coerce(despesas)

load_categorias_body == categorias

load_formas_pagamento_body == Column(formas_pagamento, "Tipo_Pagamento")

load_cartoes_body == Column(cartoes, "Nome_Cartao")

bodies ==
    [f \in Loaders |->
        CASE f = "load_receitas" -> load_receitas_body
          [] f = "load_despesas" -> load_despesas_body
          [] f = "load_categorias" -> load_categorias_body
          [] f = "load_formas_pagamento" -> load_formas_pagamento_body
          [] OTHER -> load_cartoes_body]

load(f) == cached_call(cache, f, bodies[f])

(***************************************************************************)
(* Aggregation: groupby(key)['Valor'].sum() and get_dados_mensais.         *)
(***************************************************************************)
RECURSIVE SumWhere(_, _, _)
SumWhere(keys, vals, k) ==
    IF keys = <<>> THEN 0
    ELSE (IF Head(keys) = k THEN Head(vals) ELSE 0) + SumWhere(Tail(keys), Tail(vals), k)

\* Mutant: each key keeps the amount of its last row instead of the sum.
RECURSIVE LastWhere(_, _, _)
LastWhere(keys, vals, k) ==
    IF keys[Len(keys)] = k THEN vals[Len(vals)]
    ELSE LastWhere(SubSeq(keys, 1, Len(keys) - 1), SubSeq(vals, 1, Len(vals) - 1), k)

groupby_last(keys, vals) == [k \in Range(keys) |-> LastWhere(keys, vals, k)]

\* df.groupby(col)['Valor'].sum(): one entry per key that occurs, mapped to its sum.
groupby_sum(keys, vals) == [k \in Range(keys) |-> SumWhere(keys, vals, k)]

\* The column names; 'M^es' stands for the accented 'Mês'.
ColMes == "Mes"
ColMesAcento == "M^es"
NoName == "None"

\* pd.Series(dtype=float): no rows, an unnamed index.
EmptySeries == [name |-> NoName, index |-> <<>>, val |-> <<>>]

\* pd.DataFrame()
EmptyFrame == [columns |-> <<>>, rows |-> <<>>]

\* df['Mes'] = df['Data'].dt.to_period('M'); df.groupby('Mes')['Valor'].sum():
\* a Series whose index is named 'Mes' and sorted by Period.
mensal(df) ==
    IF df = <<>> THEN EmptySeries
    ELSE LET Mes == [i \in DOMAIN df |-> to_period_M(df[i].Data)]
             g   == groupby_sum(Mes, Column(df, "Valor"))
         IN  [name |-> ColMes, index |-> SortedSeq(DOMAIN g), val |-> g]

\* Mutant: a left join, which keeps the months of the income side only.
union_index_left(r, d) == r.index

\* Mutant: the expense-only months appended after the income months, unsorted.
union_index_concat(r, d) ==
    r.index \o SelectSeq(d.index, LAMBDA k : k \notin Range(r.index))

\* The index of pd.DataFrame({'Receitas': r, 'Despesas': d}): the sorted union.
union_index(r, d) == SortedSeq(Range(r.index) \cup Range(d.index))

\* .fillna(0) of a column aligned on the union index.
aligned(s, k) == IF k \in DOMAIN s.val THEN s.val[k] ELSE 0

\* reset_index().rename(columns={'index': 'Mês'}): a named index keeps its name
\* as the column name, an unnamed one becomes 'index' and is renamed.
key_column(r, d) ==
    LET name == IF r.name = d.name THEN r.name ELSE NoName
        col  == IF name = NoName THEN "index" ELSE name
    IN  IF col = "index" THEN ColMesAcento ELSE col

get_dados_mensais(df_receitas, df_despesas) ==
    IF df_receitas = <<>> /\ df_despesas = <<>> THEN EmptyFrame
    ELSE LET r == mensal(df_receitas)
             d == mensal(df_despesas)
             index == union_index(r, d)
         IN  IF r.index = <<>> /\ d.index = <<>> THEN EmptyFrame
             ELSE [columns |-> <<key_column(r, d), "Receitas", "Despesas", "Saldo">>,
                   rows |-> [i \in DOMAIN index |->
                       [key      |-> period_str(index[i]),
                        Receitas |-> aligned(r, index[i]),
                        Despesas |-> aligned(d, index[i]),
                        Saldo    |-> aligned(r, index[i]) - aligned(d, index[i])]]]

\* df.groupby('Categoria')['Valor'].sum() of the dashboard pies.
por_categoria(df) == groupby_sum(Column(df, "Categoria"), Column(df, "Valor"))

(***************************************************************************)
(* The append operations.                                                  *)
(***************************************************************************)
\* nova_linha of add_receita.
linha_receita(receita_id, data, tipo_receita, categoria, valor, descricao) ==
    [ID |-> receita_id, Data |-> strftime(data), Categoria |-> categoria,
     Tipo_Receita |-> tipo_receita, Valor |-> valor, Descricao |-> descricao]

\* Mutant: Parcela_Atual written as the 0-based loop index.
linha_despesa_base0(despesa_id, grupo_id, form, acima, i) ==
    [ID |-> despesa_id,
     Data |-> strftime(form.data + DiasPorParcela * i),
     Categoria |-> form.categoria,
     Forma_Pagamento |-> form.forma_pagamento,
     Cartao |-> IF form.cartao # "" THEN form.cartao ELSE "",
     Valor |-> round2(form.valor, form.num_parcelas, acima),
     Parcelas |-> form.num_parcelas,
     Parcela_Atual |-> i,
     ID_Grupo_Parcelado |-> grupo_id,
     Descricao |-> <<form.descricao, i + 1, form.num_parcelas>>]

\* Mutant: the offset counted from 1, so the first installment is moved 30 days on.
linha_despesa_adiada(despesa_id, grupo_id, form, acima, i) ==
    [ID |-> despesa_id,
     Data |-> strftime(form.data + DiasPorParcela * (i + 1)),
     Categoria |-> form.categoria,
     Forma_Pagamento |-> form.forma_pagamento,
     Cartao |-> IF form.cartao # "" THEN form.cartao ELSE "",
     Valor |-> round2(form.valor, form.num_parcelas, acima),
     Parcelas |-> form.num_parcelas,
     Parcela_Atual |-> i + 1,
     ID_Grupo_Parcelado |-> grupo_id,
     Descricao |-> <<form.descricao, i + 1, form.num_parcelas>>]

\* nova_linha of add_despesa in loop iteration i (0-based); form is the argument list.
linha_despesa(despesa_id, grupo_id, form, acima, i) ==
    [ID |-> despesa_id,
     Data |-> strftime(form.data + DiasPorParcela * i),
     Categoria |-> form.categoria,
     Forma_Pagamento |-> form.forma_pagamento,
     Cartao |-> IF form.cartao # "" THEN form.cartao ELSE "",
     Valor |-> round2(form.valor, form.num_parcelas, acima),
     Parcelas |-> form.num_parcelas,
     Parcela_Atual |-> i + 1,
     ID_Grupo_Parcelado |-> grupo_id,
     Descricao |-> <<form.descricao, i + 1, form.num_parcelas>>]

\* The rows add_despesa appends before the loop ends or append_row number
\* `feitas + 1` raises: iterations 0 .. feitas-1.
linhas_despesa(ids, grupo_id, form, acima, feitas) ==
    [j \in 1..feitas |-> linha_despesa(ids[j], grupo_id, form, acima, j - 1)]

(***************************************************************************)
(* What a script run leaves on the page.                                   *)
(***************************************************************************)
NoForm == [kind |-> "none"]

NoView == [kind |-> "none"]

Rendered(page, form, msg, base) == [page |-> page, form |-> form, msg |-> msg, base |-> base]

\* df_categorias[df_categorias['Tipo'] == tipo]['Nome_Categoria'].tolist()
RECURSIVE categorias_do_tipo(_, _)
categorias_do_tipo(df, tipo) ==
    IF df = <<>> THEN <<>>
    ELSE (IF Head(df).Tipo = tipo THEN <<Head(df).Nome_Categoria>> ELSE <<>>)
         \o categorias_do_tipo(Tail(df), tipo)

\* text_input "Categoria", shown when no category of the type is configured.
TextosCategoria == {"", "Outros"}

\* The "Categoria" widget: a selectbox over the configured names, else a text_input.
opcoes_categoria(df_categorias, tipo) ==
    LET nomes == categorias_do_tipo(df_categorias, tipo)
    IN  IF nomes # <<>> THEN Range(nomes) ELSE TextosCategoria

\* The fallbacks of the expense page when a reference list is empty.
FormasPadrao == <<"PIX", "Dinheiro", "Debito", "Credito">>
CartoesPadrao == <<"Nubank", "Inter", "Outro">>

opcoes_forma(formas) == Range(IF formas = <<>> THEN FormasPadrao ELSE formas)

\* cartoes_com_branco = [""] + cartoes
opcoes_cartao(lista) == Range(<<"">> \o (IF lista = <<>> THEN CartoesPadrao ELSE lista))

\* if valor_receita > 0 and categoria_receita
valida_receita(form) == form.valor > 0 /\ form.categoria # ""

\* Mutant: an amount of zero passes.
valida_despesa_zero(form) ==
    form.valor >= 0 /\ form.categoria # "" /\ form.forma_pagamento # ""

\* if valor_total > 0 and categoria_despesa and forma_pagamento
valida_despesa(form) == form.valor > 0 /\ form.categoria # "" /\ form.forma_pagamento # ""

\* if forma_pagamento == "Crédito" and not cartao_selecionado
falta_cartao(form) == form.forma_pagamento = "Credito" /\ form.cartao = ""

(***************************************************************************)
(* Initial state: empty transaction sheets, nothing cached, the reference  *)
(* sheets as configured (cats: the Categorias sheet).                      *)
(***************************************************************************)
InitCom(cats) ==
    /\ receitas = <<>>
    /\ despesas = <<>>
    /\ categorias = cats
    /\ formas_pagamento = FormasConfiguradas
    /\ cartoes = CartoesConfigurados
    /\ cache = cache_clear
    /\ ui = Rendered("inicio", NoForm, "none", 0)
    /\ view = NoView

Init == InitCom(CategoriasConfiguradas)

(***************************************************************************)
(* Menu "Nova Receita": the page loads the categories; a submission is     *)
(* validated and, when valid, add_receita appends one row and clears the   *)
(* cache.  append_row may raise, which ends the run before the clear.      *)
(* `teto` caps the sheet's length in the model.                            *)
(***************************************************************************)
SubmeterReceita(form, receita_id, falha, teto) ==
    LET c1 == cache_after(cache, {"load_categorias"}, bodies)
        base == Len(receitas)
    IN  /\ UNCHANGED <<despesas, categorias, formas_pagamento, cartoes>>
        /\ view' = NoView
        /\ IF valida_receita(form)
           THEN /\ Len(receitas) < teto
                /\ IF falha
                   THEN /\ receitas' = receitas
                        /\ cache' = c1
                        /\ ui' = Rendered("nova_receita", form, "exception", base)
                   ELSE /\ receitas' = Append(receitas,
                              linha_receita(receita_id, form.data, form.tipo_receita,
                                            form.categoria, form.valor, form.descricao))
                        /\ cache' = cache_clear
                        /\ ui' = Rendered("nova_receita", form, "success", base)
           ELSE /\ receitas' = receitas
                /\ cache' = c1
                /\ ui' = Rendered("nova_receita", form, "error", base)

\* A submission whose widget values and random outcomes are drawn from D.
NovaReceitaEm(D) ==
    \E data \in D.datas, tipo \in D.tipos, valor \in D.valores, descricao \in D.descricoes,
       categoria \in opcoes_categoria(load("load_categorias"), "Receita") \cap D.categorias,
       receita_id \in D.uuids, falha \in D.falhas :
        SubmeterReceita([kind |-> "receita", data |-> data, tipo_receita |-> tipo,
                         categoria |-> categoria, valor |-> valor, descricao |-> descricao],
                        receita_id, falha, D.max_receitas)

(***************************************************************************)
(* Menu "Nova Despesa": the page loads the three reference lists; a valid  *)
(* submission runs add_despesa, which appends one row per installment and  *)
(* clears the cache after the loop.  `falha` = 0 when no append_row        *)
(* raises, else the number of the append_row call that raises.             *)
(***************************************************************************)
\* Mutant: the new rows inserted above the stored rows instead of appended.
SubmeterDespesa_no_topo(form, ids, grupo_id, acima, falha, teto) ==
    LET c1 == cache_after(cache, {"load_categorias", "load_formas_pagamento", "load_cartoes"},
                          bodies)
        base == Len(despesas)
        feitas == IF falha = 0 THEN form.num_parcelas ELSE falha - 1
    IN  /\ UNCHANGED <<receitas, categorias, formas_pagamento, cartoes>>
        /\ view' = NoView
        /\ IF valida_despesa(form) /\ ~falta_cartao(form)
           THEN /\ Len(despesas) + form.num_parcelas <= teto
                /\ despesas' = linhas_despesa(ids, grupo_id, form, acima, feitas) \o despesas
                /\ cache' = IF falha = 0 THEN cache_clear ELSE c1
                /\ ui' = Rendered("nova_despesa", form,
                                  IF falha = 0 THEN "success" ELSE "exception", base)
           ELSE /\ despesas' = despesas
                /\ cache' = c1
                /\ ui' = Rendered("nova_despesa", form, "error", base)

SubmeterDespesa(form, ids, grupo_id, acima, falha, teto) ==
    LET c1 == cache_after(cache, {"load_categorias", "load_formas_pagamento", "load_cartoes"},
                          bodies)
        base == Len(despesas)
        feitas == IF falha = 0 THEN form.num_parcelas ELSE falha - 1
    IN  /\ UNCHANGED <<receitas, categorias, formas_pagamento, cartoes>>
        /\ view' = NoView
        /\ IF valida_despesa(form) /\ ~falta_cartao(form)
           THEN /\ Len(despesas) + form.num_parcelas <= teto
                /\ despesas' = despesas \o linhas_despesa(ids, grupo_id, form, acima, feitas)
                /\ cache' = IF falha = 0 THEN cache_clear ELSE c1
                /\ ui' = Rendered("nova_despesa", form,
                                  IF falha = 0 THEN "success" ELSE "exception", base)
           ELSE /\ despesas' = despesas
                /\ cache' = c1
                /\ ui' = Rendered("nova_despesa", form, "error", base)

NovaDespesaEm(D) ==
    \E data \in D.datas, valor \in D.valores, descricao \in D.descricoes,
       categoria \in opcoes_categoria(load("load_categorias"), "Despesa") \cap D.categorias,
       forma \in opcoes_forma(load("load_formas_pagamento")) \cap D.formas,
       cartao \in opcoes_cartao(load("load_cartoes")) \cap D.cartoes,
       n \in D.parcelas, grupo_id \in D.uuids, acima \in BOOLEAN :
        \E ids \in [1..n -> D.uuids], falha \in {0} \cup {k \in 1..n : TRUE \in D.falhas} :
            SubmeterDespesa([kind |-> "despesa", data |-> data, categoria |-> categoria,
                             forma_pagamento |-> forma, cartao |-> cartao, valor |-> valor,
                             num_parcelas |-> n, descricao |-> descricao],
                            ids, grupo_id, acima, falha, D.max_despesas)

(***************************************************************************)
(* Menu "Dashboard": both loaders, the monthly frame, the category sums.   *)
(***************************************************************************)
Dashboard ==
    LET df_receitas == load("load_receitas")
        df_despesas == load("load_despesas")
        df_mensal   == get_dados_mensais(df_receitas, df_despesas)
    IN  /\ cache' = cache_after(cache, {"load_receitas", "load_despesas"}, bodies)
        /\ ui' = Rendered("dashboard", NoForm, "none", 0)
        /\ view' = [kind |-> "dashboard",
                    df_receitas |-> df_receitas,
                    df_despesas |-> df_despesas,
                    df_mensal |-> df_mensal,
                    grafico |-> df_mensal.rows # <<>> /\ ColMesAcento \in Range(df_mensal.columns),
                    receitas_cat |-> por_categoria(df_receitas),
                    despesas_cat |-> por_categoria(df_despesas)]
        /\ UNCHANGED sheets

(***************************************************************************)
(* Menu "Historico": both loaders, listed.                                 *)
(***************************************************************************)
Historico ==
    /\ cache' = cache_after(cache, {"load_receitas", "load_despesas"}, bodies)
    /\ ui' = Rendered("historico", NoForm, "none", 0)
    /\ view' = [kind |-> "historico",
                df_receitas |-> load("load_receitas"),
                df_despesas |-> load("load_despesas")]
    /\ UNCHANGED sheets

(***************************************************************************)
(* Menu "Configuracoes": the reference lists; the button clears the cache  *)
(* at the end of the run.                                                  *)
(***************************************************************************)
Configuracoes ==
    \E limpar \in BOOLEAN :
        /\ cache' = IF limpar THEN cache_clear
                    ELSE cache_after(cache, {"load_categorias", "load_formas_pagamento",
                                             "load_cartoes"}, bodies)
        /\ ui' = Rendered("configuracoes", NoForm, IF limpar THEN "success" ELSE "none", 0)
        /\ view' = NoView
        /\ UNCHANGED sheets

(***************************************************************************)
(* The ttl of a cache entry runs out.                                      *)
(***************************************************************************)
Expira ==
    \E f \in Loaders :
        /\ cache[f].cached
        /\ cache' = [cache EXCEPT ![f] = Miss]
        /\ UNCHANGED <<sheets, ui, view>>

(***************************************************************************)
(* The application: every page, submissions of one date and one amount,    *)
(* append_row free to raise.                                               *)
(***************************************************************************)
Dominio ==
    [datas |-> {738916}, tipos |-> {"Fixa"}, categorias |-> {"Salario", "Alimentacao"},
     formas |-> {"PIX"}, cartoes |-> {""}, valores |-> {0, 100}, descricoes |-> {"compra"},
     parcelas |-> Parcelas(MaxParcelas), uuids |-> UUIDS, falhas |-> BOOLEAN,
     max_receitas |-> MaxReceitas, max_despesas |-> MaxDespesas]

NovaReceita == NovaReceitaEm(Dominio)

NovaDespesa == NovaDespesaEm(Dominio)

Next ==
    \/ NovaReceita
    \/ NovaDespesa
    \/ Dashboard
    \/ Historico
    \/ Configuracoes
    \/ Expira

Spec == Init /\ [][Next]_vars

(***************************************************************************)
(* add_despesa on its own: one submission in a fresh session, over a wide  *)
(* range of totals, installment counts and first dates, onto an empty      *)
(* sheet or a sheet that already holds a row.                              *)
(***************************************************************************)
FormExistente ==
    [kind |-> "despesa", data |-> 738869, categoria |-> "Alimentacao",
     forma_pagamento |-> "PIX", cartao |-> "", valor |-> 100, num_parcelas |-> 1,
     descricao |-> "compra"]

LinhasExistentes == linhas_despesa(<<"1f0c9a2e">>, "b7d44e10", FormExistente, FALSE, 1)

\* First dates 2023-01-31, 2023-12-15, 2024-01-31; totals 0.01 .. and 100.00.
DominioParcelas ==
    [datas |-> {738551, 738869, 738916}, tipos |-> {"Fixa"}, categorias |-> {"Alimentacao"},
     formas |-> {"PIX"}, cartoes |-> {""}, valores |-> (1..MaxValorAmplo) \cup {10000},
     descricoes |-> {"compra"}, parcelas |-> Parcelas(MaxParcelasAmplo), uuids |-> UUIDS,
     falhas |-> BOOLEAN, max_receitas |-> 0,
     max_despesas |-> MaxParcelasAmplo + Len(LinhasExistentes)]

InitParcelas ==
    /\ receitas = <<>>
    /\ despesas \in {<<>>, LinhasExistentes}
    /\ categorias = CategoriasConfiguradas
    /\ formas_pagamento = FormasConfiguradas
    /\ cartoes = CartoesConfigurados
    /\ cache = cache_clear
    /\ ui = Rendered("inicio", NoForm, "none", 0)
    /\ view = NoView

DespesaParcelada == ui.page = "inicio" /\ NovaDespesaEm(DominioParcelas)

NextParcelas == DespesaParcelada

SpecParcelas == InitParcelas /\ [][NextParcelas]_vars

\* The rows the last add_despesa call appended.
novas == SubSeq(despesas, ui.base + 1, Len(despesas))

chamou_add_despesa == ui.page = "nova_despesa" /\ ui.msg \in {"success", "exception"}

completou_add_despesa == ui.page = "nova_despesa" /\ ui.msg = "success"

Abs(x) == IF x < 0 THEN -x ELSE x

\* C1: a call of add_despesa that completes appends exactly n rows after the
\* rows already stored; their Parcela_Atual are pairwise distinct and are
\* exactly 1..n, every row has Parcelas = n, and all rows have one and the
\* same ID_Grupo_Parcelado.
C1_ParcelasCompletas ==
    completou_add_despesa =>
        LET n == ui.form.num_parcelas
        IN  /\ ui.form.valor > 0 /\ n >= 1
            /\ Len(novas) = n
            /\ SubSeq(despesas, 1, ui.base) \in {<<>>, LinhasExistentes}
            /\ {novas[i].Parcela_Atual : i \in DOMAIN novas} = 1..n
            /\ \A i, j \in DOMAIN novas :
                   novas[i].Parcela_Atual = novas[j].Parcela_Atual => i = j
            /\ \A i \in DOMAIN novas : novas[i].Parcelas = n
            /\ \A i, j \in DOMAIN novas :
                   novas[i].ID_Grupo_Parcelado = novas[j].ID_Grupo_Parcelado

\* Three installments appended after an existing row.
C1_Witness ==
    /\ completou_add_despesa
    /\ ui.base = 1
    /\ ui.form.num_parcelas = 3
    /\ Len(despesas) = 4
    /\ despesas[4].ID # despesas[3].ID

\* C2: every installment row written by add_despesa carries the same amount,
\* the cent value nearest to T / n (so the last row does not absorb the
\* remainder), and after a completed call the n amounts sum to within n
\* cents of T.
C2_ValorDasParcelas ==
    chamou_add_despesa =>
        LET n == ui.form.num_parcelas
            T == ui.form.valor
        IN  /\ \A i \in DOMAIN novas :
                   /\ novas[i].Valor = novas[1].Valor
                   /\ 2 * Abs(n * novas[i].Valor - T) <= n
            /\ completou_add_despesa =>
                   Abs(SumSeq(Column(novas, "Valor")) - T) <= n

\* 100.00 in 3 installments: 33.33 each, 99.99 in all.
C2_Witness ==
    /\ completou_add_despesa
    /\ ui.form.valor = 10000
    /\ ui.form.num_parcelas = 3
    /\ novas[3].Valor = 3333
    /\ SumSeq(Column(novas, "Valor")) = 9999

DominioMensal ==
    [datas |-> {738869, 738916}, tipos |-> {"Fixa"},
     categorias |-> {"Salario", "Freelance", "Alimentacao", "Transporte"},
     formas |-> {"PIX"}, cartoes |-> {""}, valores |-> {100}, descricoes |-> {"compra"},
     parcelas |-> Parcelas(MaxParcelas), uuids |-> {"1f0c9a2e"}, falhas |-> {FALSE},
     max_receitas |-> MaxReceitasMensal, max_despesas |-> MaxDespesasMensal]

ReceitaMensal == NovaReceitaEm(DominioMensal)

DespesaMensal == NovaDespesaEm(DominioMensal)

NextMensal ==
    \/ ReceitaMensal
    \/ DespesaMensal
    \/ Dashboard

SpecMensal == Init /\ [][NextMensal]_vars

\* The year-month of a sheet row, read off its 'YYYY-MM-DD' text.
ano_mes(linha) == <<linha.Data.y, linha.Data.m>>

meses_de(tabela) == {ano_mes(tabela[i]) : i \in DOMAIN tabela}

RECURSIVE SumOver(_, _)
SumOver(f, S) ==
    IF S = {} THEN 0
    ELSE LET x == CHOOSE x \in S : TRUE IN f[x] + SumOver(f, S \ {x})

\* The sum of the amounts of the rows of tabela dated in year-month k.
total_do_mes(tabela, k) ==
    SumOver(Column(tabela, "Valor"), {i \in DOMAIN tabela : ano_mes(tabela[i]) = k})

\* <<y1, m1>> before <<y2, m2>>, the order of the 'YYYY-MM' strings.
antes(a, b) == a[1] < b[1] \/ (a[1] = b[1] /\ a[2] < b[2])

no_dashboard == ui.page = "dashboard" /\ view.kind = "dashboard"

\* C4: get_dados_mensais returns exactly one row per year-month that occurs
\* in the income or in the expense table and no other row (no rows exactly
\* when both are empty); the row of month m holds the sum of the income
\* amounts dated in m, the sum of the expense amounts dated in m (0 for a
\* side without records in m) and their difference as balance.
C4_TotaisMensais ==
    no_dashboard =>
        LET M == view.df_mensal.rows
        IN  /\ {M[i].key : i \in DOMAIN M} = meses_de(receitas) \cup meses_de(despesas)
            /\ \A i, j \in DOMAIN M : M[i].key = M[j].key => i = j
            /\ (M = <<>>) <=> (receitas = <<>> /\ despesas = <<>>)
            /\ \A i \in DOMAIN M :
                   /\ M[i].Receitas = total_do_mes(receitas, M[i].key)
                   /\ M[i].Despesas = total_do_mes(despesas, M[i].key)
                   /\ M[i].Saldo = total_do_mes(receitas, M[i].key)
                                   - total_do_mes(despesas, M[i].key)

\* A month with income and two expense rows, and a month with expenses only.
C4_Witness ==
    /\ no_dashboard
    /\ \E i, j \in DOMAIN view.df_mensal.rows :
           /\ view.df_mensal.rows[i].Receitas = 100
           /\ view.df_mensal.rows[i].Despesas = 150
           /\ view.df_mensal.rows[i].Saldo = -50
           /\ view.df_mensal.rows[j].Receitas = 0
           /\ view.df_mensal.rows[j].Despesas = 50

\* C5: the rows get_dados_mensais returns are in strictly ascending order of
\* the year-month key, whatever the order of the rows in the two tables and
\* whichever table a month comes from.
C5_MesesEmOrdem ==
    no_dashboard =>
        LET M == view.df_mensal.rows
        IN  \A i, j \in DOMAIN M : i < j => antes(M[i].key, M[j].key)

\* The expense sheet holds a 2024 row before a 2023 row, and the first month
\* of the result comes from the expense table only.
C5_Witness ==
    /\ no_dashboard
    /\ receitas # <<>>
    /\ Len(despesas) >= 2
    /\ antes(ano_mes(despesas[2]), ano_mes(despesas[1]))
    /\ Len(view.df_mensal.rows) >= 2
    /\ view.df_mensal.rows[1].key = <<2023, 12>>
    /\ view.df_mensal.rows[1].Receitas = 0
    /\ view.df_mensal.rows[2].key = <<2024, 1>>
    /\ view.df_mensal.rows[2].Receitas = 100

\* C6: grouping a table by category and summing the amounts gives one entry
\* per category that occurs in the table and none for any other, and the
\* entries add up to the sum of all amounts of the table.
C6_PorCategoria ==
    no_dashboard =>
        /\ DOMAIN view.receitas_cat = {receitas[i].Categoria : i \in DOMAIN receitas}
        /\ DOMAIN view.despesas_cat = {despesas[i].Categoria : i \in DOMAIN despesas}
        /\ SumOver(view.receitas_cat, DOMAIN view.receitas_cat)
               = SumSeq(Column(receitas, "Valor"))
        /\ SumOver(view.despesas_cat, DOMAIN view.despesas_cat)
               = SumSeq(Column(despesas, "Valor"))

\* Two expense categories, one of them summed over two rows; a configured
\* category without rows has no entry.
C6_Witness ==
    /\ no_dashboard
    /\ DOMAIN view.despesas_cat = {"Alimentacao", "Transporte"}
    /\ view.despesas_cat["Alimentacao"] = 100
    /\ view.despesas_cat["Transporte"] = 100
    /\ Len(despesas) = 3
    /\ DOMAIN view.receitas_cat = {"Freelance"}

(***************************************************************************)
(* The two forms over every kind of widget value: zero and positive        *)
(* amounts, a typed or a selected category, each payment method with and   *)
(* without a card.                                                         *)
(***************************************************************************)
DominioForm ==
    [datas |-> {738916}, tipos |-> {"Variavel"},
     categorias |-> {"", "Outros", "Salario", "Alimentacao"},
     formas |-> {"PIX", "Credito"}, cartoes |-> {"", "Nubank"}, valores |-> {0, 100},
     descricoes |-> {"compra"}, parcelas |-> {1, 2}, uuids |-> {"1f0c9a2e"},
     falhas |-> BOOLEAN, max_receitas |-> MaxLinhasForm,
     max_despesas |-> MaxLinhasForm + 1]

InitForm == \E cats \in {<<>>, CategoriasConfiguradas} : InitCom(cats)

ReceitaForm == NovaReceitaEm(DominioForm)

DespesaForm == NovaDespesaEm(DominioForm)

NextForm ==
    \/ ReceitaForm
    \/ DespesaForm

SpecForm == InitForm /\ [][NextForm]_vars

\* The submission fails validation, in the words of the error taxonomy.
invalida(form) ==
    \/ form.valor <= 0
    \/ form.categoria = ""
    \/ form.kind = "despesa" /\ form.forma_pagamento = "Credito" /\ form.cartao = ""

\* C7: a script run that handles a submission failing validation (amount not
\* greater than 0, empty category, or Credito without a card) leaves both
\* transaction sheets as they were, does not reach the cache clear that ends
\* add_receita and add_despesa, and reports an error.
C7_InvalidaNaoGrava ==
    [][ (ui'.page \in {"nova_receita", "nova_despesa"} /\ invalida(ui'.form)) =>
            /\ receitas' = receitas
            /\ despesas' = despesas
            /\ ui'.msg = "error"
            /\ cache'["load_categorias"].cached ]_vars

\* A Credito submission without a card, otherwise complete, is refused while
\* both sheets hold rows.
C7_Witness ==
    /\ Len(despesas) > 0
    /\ Len(receitas) > 0
    /\ ui.page = "nova_despesa"
    /\ ui.form.forma_pagamento = "Credito"
    /\ ui.form.cartao = ""
    /\ ui.form.valor > 0
    /\ ui.form.categoria # ""
    /\ ui.msg = "error"

\* C8: every stored expense row has an empty Cartao unless its payment method
\* is Credito, and a non-empty Cartao when it is Credito.
C8_CartaoSoNoCredito ==
    \A i \in DOMAIN despesas :
        /\ despesas[i].Forma_Pagamento # "Credito" => despesas[i].Cartao = ""
        /\ despesas[i].Forma_Pagamento = "Credito" => despesas[i].Cartao # ""

\* C9: a read (load_receitas / load_despesas, as the dashboard and the
\* history page perform them) returns every row appended to the sheet so far.
C9_LeituraVeLinhasGravadas ==
    view.kind \in {"dashboard", "historico"} =>
        /\ \A i \in DOMAIN receitas :
               i \in DOMAIN view.df_receitas /\ view.df_receitas[i].ID = receitas[i].ID
        /\ \A i \in DOMAIN despesas :
               i \in DOMAIN view.df_despesas /\ view.df_despesas[i].ID = despesas[i].ID

\* C10: for every group identifier stored in the expense sheet, the stored
\* installment indices of the group are exactly 1..count, each once.
C10_GruposCompletos ==
    \A i \in DOMAIN despesas :
        LET grupo == {j \in DOMAIN despesas :
                          despesas[j].ID_Grupo_Parcelado = despesas[i].ID_Grupo_Parcelado}
        IN  /\ {despesas[j].Parcela_Atual : j \in grupo} = 1..despesas[i].Parcelas
            /\ \A j, k \in grupo :
                   despesas[j].Parcela_Atual = despesas[k].Parcela_Atual => j = k

(***************************************************************************)
(* Every page of the application over sheets of a few rows: submissions    *)
(* of one date, zero and positive amounts, one or two installments,        *)
(* append_row free to raise.                                               *)
(***************************************************************************)
DominioAnexo ==
    [datas |-> {738916}, tipos |-> {"Fixa"}, categorias |-> {"Salario", "Alimentacao"},
     formas |-> {"PIX"}, cartoes |-> {""}, valores |-> {0, 100}, descricoes |-> {"compra"},
     parcelas |-> {1, 2}, uuids |-> {"1f0c9a2e"}, falhas |-> BOOLEAN,
     max_receitas |-> MaxLinhasAnexo, max_despesas |-> MaxLinhasAnexo + 1]

ReceitaAnexo == NovaReceitaEm(DominioAnexo)

DespesaAnexo == NovaDespesaEm(DominioAnexo)

NextAnexo ==
    \/ ReceitaAnexo
    \/ DespesaAnexo
    \/ Dashboard
    \/ Historico
    \/ Configuracoes
    \/ Expira

SpecAnexo == Init /\ [][NextAnexo]_vars

\* a is an initial segment of b.
IsPrefix(a, b) == Len(a) <= Len(b) /\ SubSeq(b, 1, Len(a)) = a

C12_ColunaMes ==
    no_dashboard =>
        /\ view.df_mensal.rows # <<>> => view.df_mensal.columns[1] = ColMesAcento
        /\ (receitas # <<>> \/ despesas # <<>>) => view.grafico

====
